---- MODULE Spec2Model ----
(***************************************************************************)
(* Model of the Lab 4 retrieval pipeline of document-qa                    *)
(* (src/pages/lab4.py): the sliding-window chunker, the per-page PDF       *)
(* ingestor, the build-once population of Lab4Collection, the retrieval    *)
(* ranker and the prompt assembler.                                        *)
(*                                                                         *)
(* Text handled character by character (chunk_text, strip) is a sequence   *)
(* of one-character strings; text that is only formatted into other text   *)
(* (file names, ids, context blocks) is a TLA+ string.                     *)
(***************************************************************************)
EXTENDS Integers, Sequences, FiniteSets, TLC

\* ------------------------------------------------------------------ bounds
\* Longest text handed to chunk_text in ChunkSpec.
MaxTextLen == 4
\* Largest chunk_size and overlap arguments enumerated in ChunkSpec.
MaxChunkSize == 3
MaxOverlap == 3
\* chunk_text's default arguments, chunk_size=1200 and overlap=200
\* (src/pages/lab4.py:30), scaled down to the page texts enumerated here.
DefaultChunkSize == 3
DefaultOverlap == 1
\* Most pages of one PDF in IngestSpec.
MaxPages == 3
\* How many of the names of PDF_FILENAMES, from the first, the build goes through.
NumFiles == 2
\* Most messages kept in one session's lab4_messages.
MaxMessages == 2
\* Most collection.add calls that fail in one behaviour.
MaxFailures == 1
\* Most entries of a query result, largest distance, largest limit in RankSpec.
MaxHits == 4
MaxDist == 2
MaxLimit == 3

VARIABLES
    \* chunk_text: its arguments, its locals and its position
    text, chunk_size, overlap, cleaned_text, step, start, chunks, pc_chunk,
    \* history of chunk_text's loop: the value of start at each append
    window_starts,
    \* read_pdf_as_page_chunks: its argument, what PdfReader gives for it, the
    \* loop position over enumerate(reader.pages, start=1), its result, its position
    pdf_name, reader_pages, page_pos, all_chunks, pc_read,
    \* the environment of the build: pdf_path.exists() and the pages PdfReader
    \* gives, per file of PDF_FILENAMES
    file_exists, pdf_pages,
    \* Lab4Collection in the process-wide chromadb.Client(): the stored records
    collection,
    \* st.session_state per session: the keys present, and lab4_messages
    session_keys, lab4_messages,
    \* what the last page run showed: st.warning names, the exception that ended
    \* it ("none" when it ran to its end), and whether st.error was shown
    last_warnings, raised, shown_error,
    \* history: calls of create_lab4_vector_db, calls of collection.add, how many
    \* of those failed, and the arguments of the last collection.add
    build_calls, add_calls, add_failed, last_batch,
    \* create_lab4_vector_db run by concurrent callers: position, the count()
    \* each observed (-1 before line 83), and the lists each gathered
    pc_build, seen_count, gathered,
    \* a question being answered: what collection.query returned, the chunks
    \* retrieve_relevant_chunks made of it, build_rag_context's two results,
    \* the limit and the result of top_distinct_sources, and the position
    query_result, retrieved_chunks, rag_context, sources_used, rank_limit, ranked, pc_rank

chunk_vars ==
    <<text, chunk_size, overlap, cleaned_text, step, start, chunks, pc_chunk, window_starts>>

read_vars == <<pdf_name, reader_pages, page_pos, all_chunks, pc_read>>

env_vars == <<file_exists, pdf_pages>>

store_vars == <<collection, build_calls, add_calls, add_failed, last_batch, last_warnings>>

session_vars == <<session_keys, lab4_messages, raised, shown_error>>

caller_vars == <<pc_build, seen_count, gathered>>

pipe_vars == <<env_vars, store_vars, session_vars, caller_vars>>

rank_vars ==
    <<query_result, retrieved_chunks, rag_context, sources_used, rank_limit, ranked, pc_rank>>

vars == <<chunk_vars, read_vars, pipe_vars, rank_vars>>

\* The sessions (and so the threads) of the host.
Sessions == {"s1", "s2"}

EmptyBatch == [ids |-> <<>>, documents |-> <<>>, metadatas |-> <<>>]

\* ------------------------------------------- the parts a specification leaves idle
\* chunk_text is not running.
ChunkIdle ==
    /\ text = <<>> /\ chunk_size = DefaultChunkSize /\ overlap = DefaultOverlap
    /\ cleaned_text = <<>> /\ step = 0 /\ start = 0 /\ chunks = <<>>
    /\ window_starts = <<>> /\ pc_chunk = "idle"

\* read_pdf_as_page_chunks is not running.
ReadIdle ==
    /\ pdf_name = "" /\ reader_pages = <<>> /\ page_pos = 0
    /\ all_chunks = <<>> /\ pc_read = "idle"

\* No question is being answered.
RankIdle ==
    /\ query_result = [metadatas |-> <<>>, documents |-> <<>>, distances |-> <<>>]
    /\ retrieved_chunks = <<>> /\ rag_context = "" /\ sources_used = <<>>
    /\ rank_limit = 0 /\ ranked = <<>> /\ pc_rank = "idle"

\* No session exists and no file is looked at.
PipeIdle ==
    /\ file_exists = [i \in 1..NumFiles |-> FALSE]
    /\ pdf_pages = [i \in 1..NumFiles |-> <<>>]
    /\ collection = {}
    /\ session_keys = [s \in Sessions |-> {}]
    /\ lab4_messages = [s \in Sessions |-> <<>>]
    /\ last_warnings = <<>> /\ raised = "none" /\ shown_error = FALSE
    /\ build_calls = 0 /\ add_calls = 0 /\ add_failed = 0 /\ last_batch = EmptyBatch
    /\ pc_build = [s \in Sessions |-> "idle"]
    /\ seen_count = [s \in Sessions |-> -1]
    /\ gathered = [s \in Sessions |-> EmptyBatch]

\* ------------------------------------------------------------ text helpers
Min(a, b) == IF a < b THEN a ELSE b
Max(a, b) == IF a > b THEN a ELSE b

\* The characters texts are drawn from; str.split() treats both blanks alike.
Alphabet == {"a", "b", " ", "\n"}
Whitespace == {" ", "\n"}

RECURSIVE SeqsUpTo(_, _)
\* All sequences over S of length at most n.
SeqsUpTo(S, n) ==
    IF n = 0 THEN {<<>>}
    ELSE LET shorter == SeqsUpTo(S, n - 1)
         IN  shorter \cup {Append(s, c) : s \in {t \in shorter : Len(t) = n - 1}, c \in S}

\* s[from:to] of Python for 0 <= from: the characters at offsets from .. to-1,
\* the end clipped at len(s).
Slice(s, from, to) == SubSeq(s, from + 1, Min(to, Len(s)))

RECURSIVE Split(_)
\* str.split(): the maximal runs of non-whitespace characters, in order.
Split(s) ==
    IF s = <<>> THEN <<>>
    ELSE IF Head(s) \in Whitespace THEN Split(Tail(s))
    ELSE LET rest == Split(Tail(s))
         IN  IF Len(s) > 1 /\ s[2] \notin Whitespace
             THEN <<(<<Head(s)>> \o Head(rest))>> \o Tail(rest)
             ELSE <<(<<Head(s)>>)>> \o rest

RECURSIVE JoinSpace(_)
\* " ".join(words)
JoinSpace(words) ==
    IF words = <<>> THEN <<>>
    ELSE IF Len(words) = 1 THEN Head(words)
    ELSE Head(words) \o <<" ">> \o JoinSpace(Tail(words))

\* cleaned_text = " ".join(text.split())
Normalize(s) == JoinSpace(Split(s))

RECURSIVE LStrip(_)
LStrip(s) == IF s # <<>> /\ Head(s) \in Whitespace THEN LStrip(Tail(s)) ELSE s

RECURSIVE RStrip(_)
RStrip(s) ==
    IF s # <<>> /\ s[Len(s)] \in Whitespace THEN RStrip(SubSeq(s, 1, Len(s) - 1)) ELSE s

\* str.strip()
Strip(s) == RStrip(LStrip(s))

\* -------------------------------------------------------------- chunk_text
\* Mutant of StepOf: the overlap is ignored, windows are laid end to end.
StepOf_NoOverlap(size, ov) == Max(size, 1)

\* Mutant of StepOf: the difference is used as it is, without the floor of 1.
StepOf_NoFloor(size, ov) == size - ov

\* step = max(chunk_size - overlap, 1)
StepOf(size, ov) == Max(size - ov, 1)

\* Mutant of LoopCond: the loop stops before the first window that would be clipped.
LoopCond_FullOnly(st, cleaned, size) == st + size <= Len(cleaned)

\* while start < len(cleaned_text)
LoopCond(st, cleaned, size) == st < Len(cleaned)

\* cleaned_text[start : start + chunk_size]
Window(cleaned, st, size) == Slice(cleaned, st, st + size)

RECURSIVE ChunkFrom(_, _, _, _)
\* The windows the loop appends from offset st on.
ChunkFrom(cleaned, st, size, stp) ==
    IF LoopCond(st, cleaned, size)
    THEN <<Window(cleaned, st, size)>> \o ChunkFrom(cleaned, st + stp, size, stp)
    ELSE <<>>

\* chunk_text(text, chunk_size, overlap) as a function of its arguments.
ChunkText(t, size, ov) ==
    LET cleaned == Normalize(t)
    IN  IF cleaned = <<>> THEN <<>> ELSE ChunkFrom(cleaned, 0, size, StepOf(size, ov))

\* ------------------------------------------------- read_pdf_as_page_chunks
\* PDF_FILENAMES, in order.
PDF_FILENAMES ==
    << "IST 195 Syllabus - Information Technologies.pdf",
       "IST 256 Syllabus - Intro to Python for the Information Profession.pdf",
       "IST 314 Syllabus - Interacting with AI.pdf",
       "IST 343 Syllabus - Data in Society.pdf",
       "IST 387 Syllabus - Introduction to Applied Data Science.pdf",
       "IST 418 Syllabus - Big Data Analytics.pdf",
       "IST 488 Syllabus - Building Human-Centered AI Applications.pdf" >>

\* What page.extract_text() can give: None, or a text.
NoneText == [is_none |-> TRUE, text |-> <<>>]
SomeText(t) == [is_none |-> FALSE, text |-> t]

PageExtractions ==
    { NoneText,
      SomeText(<<>>),
      SomeText(<<" ", "\n">>),
      SomeText(<<"a", "b">>),
      SomeText(<<"b">>),
      SomeText(<<" ", "a", " ", "b", "\n", "a", "b", " ">>) }

\* (page.extract_text() or "").strip()
PageText(extraction) == Strip(IF extraction.is_none THEN <<>> ELSE extraction.text)

\* Mutant of EnumeratePages: the empty pages are dropped before the pages are
\* numbered, so the surviving pages are renumbered 1, 2, ...
RECURSIVE EnumeratePages_Renumbered(_)
EnumeratePages_Renumbered(pages) ==
    IF pages = <<>> THEN <<>>
    ELSE LET before == EnumeratePages_Renumbered(SubSeq(pages, 1, Len(pages) - 1))
             last == pages[Len(pages)]
         IN  IF PageText(last) = <<>> THEN before
             ELSE Append(before, [page_index |-> Len(before) + 1, page |-> last])

\* enumerate(reader.pages, start=1)
EnumeratePages(pages) ==
    [i \in 1..Len(pages) |-> [page_index |-> i, page |-> pages[i]]]

\* f"{pdf_path.name}::p{page_index}::c{chunk_index}"
ChunkId(name, page_index, chunk_index) ==
    name \o "::p" \o ToString(page_index) \o "::c" \o ToString(chunk_index)

\* Lines 53-65: the records of one page, chunk_index from enumerate(page_chunks).
PageRecords(name, page_index, page_text) ==
    LET page_chunks == ChunkText(page_text, DefaultChunkSize, DefaultOverlap)
    IN  [k \in 1..Len(page_chunks) |->
            [id |-> ChunkId(name, page_index, k - 1),
             document |-> page_chunks[k],
             metadata |-> [source |-> name,
                           page_number |-> page_index,
                           chunk_index |-> k - 1]]]

\* Lines 49-65: the body of the page loop for one enumerated page.
PageStep(name, entry) ==
    LET page_text == PageText(entry.page)
    IN  IF page_text = <<>> THEN <<>> ELSE PageRecords(name, entry.page_index, page_text)

RECURSIVE ReadFrom(_, _, _)
ReadFrom(name, entries, pos) ==
    IF pos > Len(entries) THEN <<>>
    ELSE PageStep(name, entries[pos]) \o ReadFrom(name, entries, pos + 1)

\* read_pdf_as_page_chunks(pdf_path) as a function of the file's name and pages.
ReadPdfAsPageChunks(name, pages) == ReadFrom(name, EnumeratePages(pages), 1)

IngestInit ==
    /\ ChunkIdle
    /\ RankIdle
    /\ PipeIdle
    /\ pdf_name \in {PDF_FILENAMES[i] : i \in DOMAIN PDF_FILENAMES}
    /\ reader_pages \in SeqsUpTo(PageExtractions, MaxPages)
    /\ page_pos = 0
    /\ all_chunks = <<>>
    /\ pc_read = "call"

\* Lines 45-46: open the reader, all_chunks = [].
ReadEnter ==
    /\ pc_read = "call"
    /\ all_chunks' = <<>>
    /\ page_pos' = 1
    /\ pc_read' = "loop"
    /\ UNCHANGED <<pdf_name, reader_pages>>
    /\ UNCHANGED <<chunk_vars, pipe_vars, rank_vars>>

\* Lines 48-65: one iteration of the page loop.
ReadPage ==
    /\ pc_read = "loop"
    /\ page_pos <= Len(EnumeratePages(reader_pages))
    /\ all_chunks' = all_chunks \o PageStep(pdf_name, EnumeratePages(reader_pages)[page_pos])
    /\ page_pos' = page_pos + 1
    /\ UNCHANGED <<pdf_name, reader_pages, pc_read>>
    /\ UNCHANGED <<chunk_vars, pipe_vars, rank_vars>>

\* Line 67: return all_chunks.
ReadReturn ==
    /\ pc_read = "loop"
    /\ page_pos > Len(EnumeratePages(reader_pages))
    /\ pc_read' = "done"
    /\ UNCHANGED <<pdf_name, reader_pages, page_pos, all_chunks>>
    /\ UNCHANGED <<chunk_vars, pipe_vars, rank_vars>>

IngestNext == ReadEnter \/ ReadPage \/ ReadReturn

IngestSpec == IngestInit /\ [][IngestNext]_vars

\* -------------------------------------- read_pdf_as_page_chunks: properties
\* The chunks chunk_text cuts from page p of the document being read.
ChunksOfPage(p) == ChunkText(PageText(reader_pages[p]), DefaultChunkSize, DefaultOverlap)

\* The 1-based positions, in the document, of the pages that have text.
PagesWithText == {p \in 1..Len(reader_pages) : PageText(reader_pages[p]) # <<>>}

\* (page, chunk_index) of every chunk the document should give.
ExpectedKeys ==
    UNION {{<<p, k>> : k \in 0..(Len(ChunksOfPage(p)) - 1)} : p \in PagesWithText}

ChunkKey(c) == <<c.metadata.page_number, c.metadata.chunk_index>>

\* C7: a page with empty or whitespace-only text gives no chunk and does not
\* shift the numbering: every chunk carries the 1-based position of its page
\* in the original document and its 0-based index within that page, the
\* chunks are exactly those of the pages with text in document order, each id
\* is {filename}::p{page}::c{index}, and the ids are pairwise distinct, also
\* from the ids any other file of PDF_FILENAMES can give.
C7_PagesKeepNumbers ==
    pc_read = "done" =>
        /\ {ChunkKey(all_chunks[i]) : i \in DOMAIN all_chunks} = ExpectedKeys
        /\ Len(all_chunks) = Cardinality(ExpectedKeys)
        /\ \A i \in DOMAIN all_chunks :
              LET c == all_chunks[i]
                  p == c.metadata.page_number
                  k == c.metadata.chunk_index
              IN  /\ c.metadata.source = pdf_name
                  /\ c.document = ChunksOfPage(p)[k + 1]
                  /\ c.id = pdf_name \o "::p" \o ToString(p) \o "::c" \o ToString(k)
        /\ \A i, j \in DOMAIN all_chunks :
              i < j =>
                /\ all_chunks[i].id # all_chunks[j].id
                /\ \/ all_chunks[i].metadata.page_number < all_chunks[j].metadata.page_number
                   \/ /\ all_chunks[i].metadata.page_number = all_chunks[j].metadata.page_number
                      /\ all_chunks[i].metadata.chunk_index < all_chunks[j].metadata.chunk_index
        /\ \A n \in DOMAIN PDF_FILENAMES, p \in 1..MaxPages, k \in 0..MaxPages :
              PDF_FILENAMES[n] # pdf_name =>
                \A i \in DOMAIN all_chunks : all_chunks[i].id # ChunkId(PDF_FILENAMES[n], p, k)

\* C7 witness: a 3-page document whose page 2 has no text has been read, its
\* chunks carry the page numbers 1 and 3 only, and page 3 gave several chunks.
C7_Witness ==
    /\ pc_read = "done"
    /\ Len(reader_pages) = 3
    /\ PagesWithText = {1, 3}
    /\ {all_chunks[i].metadata.page_number : i \in DOMAIN all_chunks} = {1, 3}
    /\ \E i \in DOMAIN all_chunks :
          all_chunks[i].metadata.page_number = 3 /\ all_chunks[i].metadata.chunk_index = 2

\* ---------------------------------------------------- chunk_text, stepwise
ChunkInit ==
    /\ ReadIdle
    /\ RankIdle
    /\ PipeIdle
    /\ text \in SeqsUpTo(Alphabet, MaxTextLen)
    /\ chunk_size \in 1..MaxChunkSize
    /\ overlap \in 0..MaxOverlap
    /\ cleaned_text = <<>>
    /\ step = 0
    /\ start = 0
    /\ chunks = <<>>
    /\ window_starts = <<>>
    /\ pc_chunk = "call"

\* Lines 31-37: normalise, return [] for empty text, else set up the loop.
ChunkEnter ==
    /\ pc_chunk = "call"
    /\ cleaned_text' = Normalize(text)
    /\ IF cleaned_text' = <<>>
       THEN /\ pc_chunk' = "done"
            /\ UNCHANGED <<step, start, chunks, window_starts>>
       ELSE /\ pc_chunk' = "loop"
            /\ chunks' = <<>>
            /\ window_starts' = <<>>
            /\ step' = StepOf(chunk_size, overlap)
            /\ start' = 0
    /\ UNCHANGED <<text, chunk_size, overlap>>
    /\ UNCHANGED <<read_vars, pipe_vars, rank_vars>>

\* Lines 38-40: one iteration of the while loop.
ChunkIterate ==
    /\ pc_chunk = "loop"
    /\ LoopCond(start, cleaned_text, chunk_size)
    /\ chunks' = Append(chunks, Window(cleaned_text, start, chunk_size))
    /\ window_starts' = Append(window_starts, start)
    /\ start' = start + step
    /\ UNCHANGED <<text, chunk_size, overlap, cleaned_text, step, pc_chunk>>
    /\ UNCHANGED <<read_vars, pipe_vars, rank_vars>>

\* Line 41: the loop condition fails, return chunks.
ChunkReturn ==
    /\ pc_chunk = "loop"
    /\ ~LoopCond(start, cleaned_text, chunk_size)
    /\ pc_chunk' = "done"
    /\ UNCHANGED <<text, chunk_size, overlap, cleaned_text, step, start, chunks, window_starts>>
    /\ UNCHANGED <<read_vars, pipe_vars, rank_vars>>

ChunkNext == ChunkEnter \/ ChunkIterate \/ ChunkReturn

ChunkSpec == ChunkInit /\ [][ChunkNext]_vars

\* The call runs on: the interpreter executes the next statement of chunk_text
\* whenever there is one.
ChunkFairSpec == ChunkSpec /\ WF_vars(ChunkNext)

\* ------------------------------------------------- chunk_text: properties
\* chunk_text has returned a non-empty sequence for chunk_size > overlap >= 0.
ChunkDone == pc_chunk = "done" /\ cleaned_text # <<>>

\* Offset one past the last character of window i.
WindowEnd(i) == window_starts[i] + Len(chunks[i])

\* Number of characters of window i that lie at or after the start of window i+1.
OverlapLen(i) == WindowEnd(i) - window_starts[i + 1]

\* Window i is the text it was cut from at its offsets, and the characters it
\* shares with window i+1 are the same characters in both.
WindowPlaced(i) ==
    chunks[i] = SubSeq(cleaned_text, window_starts[i] + 1, WindowEnd(i))

SharedSame(i) ==
    /\ OverlapLen(i) >= 0
    /\ OverlapLen(i) <= Len(chunks[i + 1])
    /\ SubSeq(chunks[i], Len(chunks[i]) - OverlapLen(i) + 1, Len(chunks[i]))
         = SubSeq(chunks[i + 1], 1, OverlapLen(i))

FinalEndIsLength ==
    /\ Len(chunks) >= 1
    /\ Len(window_starts) = Len(chunks)
    /\ WindowEnd(Len(chunks)) = Len(cleaned_text)

\* C5 as stated: for non-empty normalized text and chunk_size > overlap >= 0,
\* every pair of consecutive windows overlaps by exactly chunk_size - step
\* characters and the final window ends at the text length.
C5_Original ==
    (ChunkDone /\ chunk_size > overlap) =>
        /\ FinalEndIsLength
        /\ \A i \in 1..(Len(chunks) - 1) : OverlapLen(i) = chunk_size - step

\* C5 amended: for non-empty normalized text and chunk_size > overlap >= 0,
\* consecutive windows overlap by exactly chunk_size - step characters when the
\* earlier window is full length (chunk_size characters); when the earlier
\* window is clipped by the end of the text the overlap is the whole of the
\* later window, at most chunk_size - step characters. Every window is the
\* text at its offsets, and the final window ends at the text length.
C5_OverlapClipped ==
    (ChunkDone /\ chunk_size > overlap) =>
        /\ FinalEndIsLength
        /\ \A i \in 1..Len(chunks) : WindowPlaced(i)
        /\ \A i \in 1..(Len(chunks) - 1) :
              /\ SharedSame(i)
              /\ Len(chunks[i]) = chunk_size => OverlapLen(i) = chunk_size - step
              /\ Len(chunks[i]) < chunk_size =>
                    /\ OverlapLen(i) = Len(chunks[i + 1])
                    /\ OverlapLen(i) <= chunk_size - step
              /\ Len(chunks[i]) <= chunk_size

\* C5 witness: a run with overlap > 0 whose last-but-one window is clipped, so
\* that the last pair shares fewer than chunk_size - step characters, next to
\* a pair that shares exactly chunk_size - step.
C5_Witness ==
    /\ ChunkDone /\ chunk_size > overlap /\ overlap > 0
    /\ Len(chunks) >= 3
    /\ OverlapLen(1) = chunk_size - step
    /\ OverlapLen(Len(chunks) - 1) < chunk_size - step

\* The prefix of a chunk after the first that repeats the end of its predecessor.
DupLen == IF overlap < chunk_size THEN overlap ELSE chunk_size - 1

RECURSIVE Reassemble(_, _)
\* chunks[0] + chunks[1][d:] + chunks[2][d:] + ...
Reassemble(cs, d) ==
    IF cs = <<>> THEN <<>>
    ELSE IF Len(cs) = 1 THEN cs[1]
    ELSE Reassemble(SubSeq(cs, 1, Len(cs) - 1), d) \o Slice(cs[Len(cs)], d, Len(cs[Len(cs)]))

\* C6: concatenating the chunks of one page in chunk_index order, each chunk
\* after the first without its overlap-duplicated prefix, gives back the
\* normalized page text.
C6_RoundTrip == pc_chunk = "done" => Reassemble(chunks, DupLen) = cleaned_text

\* C6 witness: normalisation changed the text, several windows were cut with a
\* positive overlap, and the last one lies wholly inside its predecessor.
C6_Witness ==
    /\ ChunkDone /\ chunk_size > overlap /\ overlap > 0
    /\ text # cleaned_text
    /\ Len(chunks) >= 3
    /\ Len(chunks[Len(chunks)]) < overlap

\* The step the arguments ask for, at least 1.
EffectiveStep == IF chunk_size - overlap > 1 THEN chunk_size - overlap ELSE 1

\* Every character of the text is whitespace (the empty text included).
AllWhitespace == \A i \in DOMAIN text : text[i] \in Whitespace

\* C11: for every chunk_size > 0 and overlap >= 0, overlap >= chunk_size
\* included, chunk_text terminates: each iteration emits one non-empty window
\* at the current start, below the text length, and moves start up by
\* step = max(chunk_size - overlap, 1) >= 1; when it returns, the windows are
\* those at the offsets 0, step, 2*step, ... below the normalized text length,
\* and an empty or whitespace-only text gives the empty sequence.
C11_Terminates ==
    /\ [][ (pc_chunk = "loop" /\ chunks' # chunks) =>
              /\ step = EffectiveStep /\ step >= 1
              /\ start' = start + step /\ start' > start
              /\ start < Len(cleaned_text)
              /\ Len(chunks') = Len(chunks) + 1
              /\ chunks'[Len(chunks')] # <<>>
              /\ window_starts'[Len(chunks')] = start ]_vars
    /\ [](pc_chunk = "done" =>
              /\ Len(window_starts) = Len(chunks)
              /\ \A i \in DOMAIN window_starts : window_starts[i] = (i - 1) * EffectiveStep
              /\ \A k \in 0..MaxTextLen :
                    (k * EffectiveStep < Len(cleaned_text)) <=> (k + 1 \in DOMAIN chunks)
              /\ \A i \in DOMAIN chunks : chunks[i] # <<>>
              /\ AllWhitespace <=> chunks = <<>>)
    /\ <>(pc_chunk = "done")

\* C11 witness: a call with overlap >= chunk_size has returned several
\* windows, one per character offset.
C11_Witness ==
    /\ pc_chunk = "done"
    /\ overlap >= chunk_size /\ chunk_size >= 2
    /\ step = 1
    /\ Len(chunks) >= 3 /\ Len(chunks) = Len(cleaned_text)

\* ------------------------------------------------- create_lab4_vector_db
\* The documents a file of the build can hold: one page of text; a page
\* without text; three pages, the middle one without text, the last one long.
PdfChoices ==
    { <<SomeText(<<"a", "b">>)>>,
      <<NoneText>>,
      <<SomeText(<<"b">>), SomeText(<<" ">>), SomeText(<<"a", " ", "b", "\n", "a", "b">>)>> }

\* Mutant of BuildGuard: the collection is populated whatever it holds.
BuildGuard_Always(count) == TRUE

\* Line 83: if collection.count() == 0
BuildGuard(count) == count = 0

\* Line 106: if "Lab4_VectorDB" not in st.session_state
SessionGuard(keys) == "Lab4_VectorDB" \notin keys

\* Lines 95-98: the chunks of one file appended to the three parallel lists.
ExtendBatch(b, file_chunks) ==
    [ids |-> b.ids \o [k \in DOMAIN file_chunks |-> file_chunks[k].id],
     documents |-> b.documents \o [k \in DOMAIN file_chunks |-> file_chunks[k].document],
     metadatas |-> b.metadatas \o [k \in DOMAIN file_chunks |-> file_chunks[k].metadata]]

RECURSIVE GatherUpTo_StopAtMissing(_, _, _)
\* Mutant of GatherUpTo: the file loop ends at the first missing file.
GatherUpTo_StopAtMissing(n, exists, pages) ==
    IF n = 0 THEN [batch |-> EmptyBatch, warnings |-> <<>>, stopped |-> FALSE]
    ELSE LET before == GatherUpTo_StopAtMissing(n - 1, exists, pages)
         IN  IF before.stopped THEN before
             ELSE IF ~exists[n]
             THEN [before EXCEPT !.warnings = Append(@, PDF_FILENAMES[n]), !.stopped = TRUE]
             ELSE [before EXCEPT
                     !.batch = ExtendBatch(@, ReadPdfAsPageChunks(PDF_FILENAMES[n], pages[n]))]

RECURSIVE GatherUpTo(_, _, _)
\* Lines 84-98 after the first n files: the three lists and the st.warning
\* names, a missing file warned about and passed over.
GatherUpTo(n, exists, pages) ==
    IF n = 0 THEN [batch |-> EmptyBatch, warnings |-> <<>>, stopped |-> FALSE]
    ELSE LET before == GatherUpTo(n - 1, exists, pages)
         IN  IF ~exists[n]
             THEN [before EXCEPT !.warnings = Append(@, PDF_FILENAMES[n])]
             ELSE [before EXCEPT
                     !.batch = ExtendBatch(@, ReadPdfAsPageChunks(PDF_FILENAMES[n], pages[n]))]

\* Lines 84-98 for the whole file list.
Gather(exists, pages) == GatherUpTo(NumFiles, exists, pages)

\* Mutant of AddCalls: collection.add is called without looking at documents.
AddCalls_Unguarded(b) == <<b>>

RECURSIVE AddCalls_PerChunk(_)
\* Mutant of AddCalls: one collection.add per chunk instead of one bulk call.
AddCalls_PerChunk(b) ==
    IF b.documents = <<>> THEN <<>>
    ELSE <<[ids |-> <<Head(b.ids)>>, documents |-> <<Head(b.documents)>>,
            metadatas |-> <<Head(b.metadatas)>>]>>
         \o AddCalls_PerChunk([ids |-> Tail(b.ids), documents |-> Tail(b.documents),
                               metadatas |-> Tail(b.metadatas)])

\* Lines 100-101: the collection.add calls issued for the gathered lists, in
\* order: one bulk call when documents is non-empty, none otherwise.
AddCalls(b) == IF b.documents # <<>> THEN <<b>> ELSE <<>>

\* A collection.add that succeeds: every (id, document, metadata) of the call
\* is stored, an id the collection already holds keeps its stored record.
StoreAdd(coll, b) ==
    coll \cup { [id |-> b.ids[k], document |-> b.documents[k], metadata |-> b.metadatas[k]] :
                k \in {j \in DOMAIN b.ids : \A r \in coll : r.id # b.ids[j]} }

RECURSIVE StoreAll(_, _)
\* The calls of a sequence that succeeded, applied in order.
StoreAll(coll, calls) ==
    IF calls = <<>> THEN coll ELSE StoreAll(StoreAdd(coll, Head(calls)), Tail(calls))

\* The files exist or not, and hold what they hold, before the first session.
PipeInit ==
    /\ file_exists \in [1..NumFiles -> BOOLEAN]
    /\ pdf_pages \in [1..NumFiles -> PdfChoices]
    /\ collection = {}
    /\ session_keys = [s \in Sessions |-> {}]
    /\ lab4_messages = [s \in Sessions |-> <<>>]
    /\ last_warnings = <<>> /\ raised = "none" /\ shown_error = FALSE
    /\ build_calls = 0 /\ add_calls = 0 /\ add_failed = 0 /\ last_batch = EmptyBatch
    /\ pc_build = [s \in Sessions |-> "idle"]
    /\ seen_count = [s \in Sessions |-> -1]
    /\ gathered = [s \in Sessions |-> EmptyBatch]

Init == ChunkIdle /\ ReadIdle /\ RankIdle /\ PipeInit

\* One run of the page script for session s, from its first line to its last
\* or to the exception that ends it. asked: st.chat_input returned a question.
\* fail_at: which collection.add call of the build fails (0: none). query_ok,
\* chat_ok: collection.query and client.chat.completions.create succeed.
PageRun(s, asked, fail_at, query_ok, chat_ok) ==
    LET build == SessionGuard(session_keys[s])
        populate == build /\ BuildGuard(Cardinality(collection))
        g == Gather(file_exists, pdf_pages)
        calls == IF populate THEN AddCalls(g.batch) ELSE <<>>
        failed == fail_at > 0
        issued == IF failed THEN fail_at ELSE Len(calls)
        stored == IF failed THEN fail_at - 1 ELSE Len(calls)
        keys1 == session_keys[s] \cup {"Lab4_VectorDB", "lab4_messages"}
        msgs1 == IF asked THEN Append(lab4_messages[s], "user") ELSE lab4_messages[s]
        msgs2 == IF asked /\ query_ok /\ chat_ok THEN Append(msgs1, "assistant") ELSE msgs1
    IN  /\ fail_at \in 0..Len(calls)
        /\ failed => add_failed < MaxFailures
        /\ asked => Len(lab4_messages[s]) < MaxMessages
        \* lines 106-108, create_lab4_vector_db lines 70-103
        /\ build_calls' = build_calls + (IF build THEN 1 ELSE 0)
        /\ last_warnings' = IF populate THEN g.warnings ELSE <<>>
        /\ add_calls' = add_calls + issued
        /\ add_failed' = add_failed + (IF failed THEN 1 ELSE 0)
        /\ last_batch' = IF issued > 0 THEN calls[issued] ELSE last_batch
        /\ collection' = StoreAll(collection, SubSeq(calls, 1, stored))
        /\ IF failed
           THEN \* collection.add raised: line 108 assigns nothing, the run ends
                /\ raised' = "add"
                /\ shown_error' = FALSE
                /\ UNCHANGED <<session_keys, lab4_messages>>
           ELSE \* lines 110-215
                /\ session_keys' = [session_keys EXCEPT ![s] = keys1]
                /\ lab4_messages' = [lab4_messages EXCEPT ![s] = msgs2]
                /\ raised' = IF asked /\ ~query_ok THEN "query" ELSE "none"
                /\ shown_error' = (asked /\ query_ok /\ ~chat_ok)
        /\ UNCHANGED <<env_vars, caller_vars, chunk_vars, read_vars, rank_vars>>

Next ==
    \E s \in Sessions, asked \in BOOLEAN, query_ok \in BOOLEAN, chat_ok \in BOOLEAN :
        \* without a question nothing is queried, without a result nothing is asked
        /\ (~asked) => query_ok
        /\ (~query_ok) => chat_ok
        /\ \E fail_at \in 0..(IF SessionGuard(session_keys[s]) /\ BuildGuard(Cardinality(collection))
                               THEN Len(AddCalls(Gather(file_exists, pdf_pages).batch))
                               ELSE 0) :
              PageRun(s, asked, fail_at, query_ok, chat_ok)

Spec == Init /\ [][Next]_vars

\* --------------------------------------- create_lab4_vector_db: properties
\* The indices of the files that exist, and of those whose text gives chunks.
ExistingFiles == {i \in 1..NumFiles : file_exists[i]}

ChunksOfFile(i) == ReadPdfAsPageChunks(PDF_FILENAMES[i], pdf_pages[i])

\* At least one chunk comes out of the files that exist.
CorpusHasChunks == \E i \in ExistingFiles : ChunksOfFile(i) # <<>>

\* The records of every chunk of every existing file.
FullCollection ==
    UNION {{ChunksOfFile(i)[k] : k \in DOMAIN ChunksOfFile(i)} : i \in ExistingFiles}

C2_NeverRepopulated ==
    [][collection # {} => (collection' = collection /\ add_calls' = add_calls)]_vars

\* C2 witness: with the collection populated, a second call of the build was
\* made and a question was asked whose chat completion failed.
C2_Witness ==
    /\ collection # {} /\ build_calls >= 2 /\ add_calls = 1
    /\ shown_error
    /\ \E s \in Sessions : lab4_messages[s] = <<"user">>

\* C3: a collection.add that fails ends the page run with that exception (the
\* session gets no Lab4_VectorDB, so nothing of that run queries) and leaves
\* the collection as it was; a step that changes the collection, empty at
\* the start, leaves it holding every chunk of the bulk insert or none.
C3_InsertAllOrNothing ==
    [][ /\ (collection' = collection \/ collection' = {} \/ collection' = FullCollection)
        /\ add_failed' > add_failed =>
              /\ collection' = collection
              /\ raised' = "add"
              /\ session_keys' = session_keys
              /\ lab4_messages' = lab4_messages ]_vars

\* C3 witness: an insert of a non-empty batch has failed, the run ended with
\* its exception, and the collection is still empty and not in any session.
C3_Witness ==
    /\ add_failed = 1 /\ raised = "add" /\ add_calls = 1
    /\ last_batch.documents # <<>>
    /\ collection = {}
    /\ \A s \in Sessions : "Lab4_VectorDB" \notin session_keys[s]

\* Position k of the three lists of a batch holds chunk c.
BatchHolds(b, k, c) ==
    b.ids[k] = c.id /\ b.documents[k] = c.document /\ b.metadatas[k] = c.metadata

\* C4: in a build that populates, every missing file is named in a warning
\* and nothing else is, the run does not end because of it, and when an
\* insert is issued its lists hold every chunk of every file that exists,
\* whichever files are missing.
C4_MissingSkipped ==
    [][ (build_calls' > build_calls /\ collection = {}) =>
          /\ Len(last_warnings') = NumFiles - Cardinality(ExistingFiles)
          /\ \A i \in 1..NumFiles :
                (~file_exists[i]) <=>
                    (\E k \in DOMAIN last_warnings' : last_warnings'[k] = PDF_FILENAMES[i])
          /\ add_calls' > add_calls <=> CorpusHasChunks
          /\ raised' # "add" => collection' = FullCollection
          /\ add_calls' > add_calls =>
                /\ Len(last_batch'.ids) = Cardinality(FullCollection)
                /\ Len(last_batch'.documents) = Len(last_batch'.ids)
                /\ Len(last_batch'.metadatas) = Len(last_batch'.ids)
                /\ \A i \in ExistingFiles : \A j \in DOMAIN ChunksOfFile(i) :
                      \E k \in DOMAIN last_batch'.ids :
                          BatchHolds(last_batch', k, ChunksOfFile(i)[j]) ]_vars

\* C4 witness: the first file is missing, a later one exists, and the build
\* warned about the first and stored the chunks of the later one.
C4_Witness ==
    /\ ~file_exists[1] /\ file_exists[NumFiles]
    /\ last_warnings # <<>> /\ last_warnings[1] = PDF_FILENAMES[1]
    /\ add_calls = 1 /\ raised = "none"
    /\ \E r \in collection : r.metadata.source = PDF_FILENAMES[NumFiles]

\* ------------------------------ create_lab4_vector_db, concurrent callers
\* Each session's first page run reaches line 108 in its own thread; the
\* steps of create_lab4_vector_db of different callers interleave.

\* Lines 77-83: get the collection and compare count() with 0.
BuildCheck(s) ==
    /\ pc_build[s] = "idle"
    /\ SessionGuard(session_keys[s])
    /\ build_calls' = build_calls + 1
    /\ seen_count' = [seen_count EXCEPT ![s] = Cardinality(collection)]
    /\ pc_build' = [pc_build EXCEPT ![s] =
                      IF BuildGuard(Cardinality(collection)) THEN "gather" ELSE "return"]
    /\ UNCHANGED <<collection, add_calls, add_failed, last_batch, last_warnings>>
    /\ UNCHANGED <<gathered, env_vars, session_vars, chunk_vars, read_vars, rank_vars>>

\* Lines 84-98: read the files into the three lists.
BuildGather(s) ==
    /\ pc_build[s] = "gather"
    /\ gathered' = [gathered EXCEPT ![s] = Gather(file_exists, pdf_pages).batch]
    /\ last_warnings' = Gather(file_exists, pdf_pages).warnings
    /\ pc_build' = [pc_build EXCEPT ![s] = "add"]
    /\ UNCHANGED <<collection, build_calls, add_calls, add_failed, last_batch>>
    /\ UNCHANGED <<seen_count, env_vars, session_vars, chunk_vars, read_vars, rank_vars>>

\* Lines 100-101: the collection.add calls; fail_at as in PageRun.
BuildAdd(s, fail_at) ==
    LET calls == AddCalls(gathered[s])
        failed == fail_at > 0
        issued == IF failed THEN fail_at ELSE Len(calls)
        stored == IF failed THEN fail_at - 1 ELSE Len(calls)
    IN  /\ pc_build[s] = "add"
        /\ fail_at \in 0..Len(calls)
        /\ failed => add_failed < MaxFailures
        /\ add_calls' = add_calls + issued
        /\ add_failed' = add_failed + (IF failed THEN 1 ELSE 0)
        /\ last_batch' = IF issued > 0 THEN calls[issued] ELSE last_batch
        /\ collection' = StoreAll(collection, SubSeq(calls, 1, stored))
        /\ pc_build' = [pc_build EXCEPT ![s] = IF failed THEN "raised" ELSE "return"]
        /\ raised' = IF failed THEN "add" ELSE raised
        /\ UNCHANGED <<build_calls, last_warnings, seen_count, gathered>>
        /\ UNCHANGED <<session_keys, lab4_messages, shown_error>>
        /\ UNCHANGED <<env_vars, chunk_vars, read_vars, rank_vars>>

\* Lines 103 and 108: return the collection, keep it in the session.
BuildReturn(s) ==
    /\ pc_build[s] = "return"
    /\ session_keys' = [session_keys EXCEPT ![s] = @ \cup {"Lab4_VectorDB"}]
    /\ pc_build' = [pc_build EXCEPT ![s] = "done"]
    /\ UNCHANGED <<store_vars, seen_count, gathered, lab4_messages, raised, shown_error>>
    /\ UNCHANGED <<env_vars, chunk_vars, read_vars, rank_vars>>

ConcNext ==
    \E s \in Sessions :
        \/ BuildCheck(s)
        \/ BuildGather(s)
        \/ \E fail_at \in 0..Len(AddCalls(gathered[s])) : BuildAdd(s, fail_at)
        \/ BuildReturn(s)

ConcSpec == Init /\ [][ConcNext]_vars

\* The callers that found count() == 0 at line 83.
Populating == {s \in Sessions : seen_count[s] = 0}

\* C10: every collection.add is issued by a caller that observed count() == 0,
\* so there is at most one insert when at most one caller populates; with two
\* callers interleaved, both can observe 0 and both insert (the witness).
C10_InsertPerEmptyObservation ==
    /\ add_calls <= Cardinality(Populating)
    /\ Cardinality(Populating) <= 1 => add_calls <= 1

\* C10 witness: both callers observed count() == 0, both issued the bulk
\* insert without failure, and both returned.
C10_Witness ==
    /\ \A s \in Sessions : seen_count[s] = 0 /\ pc_build[s] = "done"
    /\ add_calls = 2 /\ add_failed = 0
    /\ collection # {}

\* ------------------------------ retrieve_relevant_chunks, build_rag_context
\* Records a collection can hold, as collection.query returns them: the
\* stored metadata and the document, here a text that is only formatted.
StoredForQuery ==
    { [document |-> "alpha", metadata |-> [source |-> "A.pdf", page_number |-> 1, chunk_index |-> 0]],
      [document |-> "beta",  metadata |-> [source |-> "A.pdf", page_number |-> 2, chunk_index |-> 0]],
      [document |-> "gamma", metadata |-> [source |-> "B.pdf", page_number |-> 2, chunk_index |-> 1]],
      [document |-> "alpha", metadata |-> [source |-> "C.pdf", page_number |-> 1, chunk_index |-> 0]] }

\* The results collection.query can give for one query text: up to MaxHits
\* different records, nearest first, in three parallel lists.
QueryResults ==
    UNION { { [metadatas |-> [i \in 1..n |-> hits[i].metadata],
               documents |-> [i \in 1..n |-> hits[i].document],
               distances |-> dist] :
              hits \in {h \in [1..n -> StoredForQuery] :
                           \A i, j \in 1..n : i # j => h[i] # h[j]},
              dist \in {d \in [1..n -> 0..MaxDist] :
                           \A i, j \in 1..n : i < j => d[i] <= d[j]} } :
            n \in 0..MaxHits }

\* metadata.get(key, "Unknown")
MetaGet(metadata, key) == IF key \in DOMAIN metadata THEN metadata[key] ELSE "Unknown"

\* Lines 123-137: zip the three lists into chunk records.
RetrieveRelevantChunks(result) ==
    [i \in 1..Min(Len(result.metadatas), Min(Len(result.documents), Len(result.distances))) |->
        [source |-> MetaGet(result.metadatas[i], "source"),
         page_number |-> MetaGet(result.metadatas[i], "page_number"),
         chunk_text |-> result.documents[i],
         distance |-> result.distances[i]]]

\* Mutant of ContextBlock: the blocks are numbered from 0.
ContextBlock_ZeroBased(idx, chunk) ==
    "[Context " \o ToString(idx - 1) \o "] Source: " \o chunk.source
        \o " (Page " \o ToString(chunk.page_number) \o ")\n" \o chunk.chunk_text

\* Lines 149-150: the block of the chunk enumerate(chunks, start=1) numbers idx.
ContextBlock(idx, chunk) ==
    "[Context " \o ToString(idx) \o "] Source: " \o chunk.source
        \o " (Page " \o ToString(chunk.page_number) \o ")\n" \o chunk.chunk_text

RECURSIVE JoinBlankLine(_)
\* "\n\n".join(context_blocks)
JoinBlankLine(blocks) ==
    IF blocks = <<>> THEN ""
    ELSE IF Len(blocks) = 1 THEN Head(blocks)
    ELSE Head(blocks) \o "\n\n" \o JoinBlankLine(Tail(blocks))

\* source in unique_sources
InList(x, list) == \E k \in DOMAIN list : list[k] = x

RECURSIVE UniqueSourcesUpTo_All(_, _)
\* Mutant of UniqueSourcesUpTo: the source is appended without the membership test.
UniqueSourcesUpTo_All(cs, n) ==
    IF n = 0 THEN <<>> ELSE Append(UniqueSourcesUpTo_All(cs, n - 1), cs[n].source)

RECURSIVE UniqueSourcesUpTo(_, _)
\* Lines 145-147 after the first n chunks.
UniqueSourcesUpTo(cs, n) ==
    IF n = 0 THEN <<>>
    ELSE LET before == UniqueSourcesUpTo(cs, n - 1)
         IN  IF InList(cs[n].source, before) THEN before ELSE Append(before, cs[n].source)

\* build_rag_context(chunks): the joined blocks and unique_sources.
BuildRagContext(cs) ==
    [context |-> JoinBlankLine([idx \in 1..Len(cs) |-> ContextBlock(idx, cs[idx])]),
     unique_sources |-> UniqueSourcesUpTo(cs, Len(cs))]

\* ---------------------------------------------------- top_distinct_sources
RECURSIVE TopDistinctFrom_KeepLast(_, _, _, _)
\* Mutant of TopDistinctFrom: a later occurrence of a source replaces the
\* distance and sample recorded for it.
TopDistinctFrom_KeepLast(result, pos, acc, limit) ==
    IF pos > Len(result) THEN acc
    ELSE LET e == result[pos]
             entry == [source |-> e.source, distance |-> e.distance, sample |-> e.chunk_text]
         IN  IF \E k \in DOMAIN acc : acc[k].source = e.source
             THEN TopDistinctFrom_KeepLast(result, pos + 1,
                      [k \in DOMAIN acc |-> IF acc[k].source = e.source THEN entry ELSE acc[k]],
                      limit)
             ELSE IF Len(acc) >= limit THEN acc
             ELSE TopDistinctFrom_KeepLast(result, pos + 1, Append(acc, entry), limit)

RECURSIVE TopDistinctFrom(_, _, _, _)
\* The walk of the result from entry pos on: an entry whose source was not
\* seen is recorded with its distance and sample text; the walk stops once
\* limit sources are collected or the result is exhausted.
TopDistinctFrom(result, pos, acc, limit) ==
    IF Len(acc) >= limit \/ pos > Len(result) THEN acc
    ELSE LET e == result[pos]
         IN  IF \E k \in DOMAIN acc : acc[k].source = e.source
             THEN TopDistinctFrom(result, pos + 1, acc, limit)
             ELSE TopDistinctFrom(result, pos + 1,
                      Append(acc, [source |-> e.source, distance |-> e.distance,
                                   sample |-> e.chunk_text]),
                      limit)

\* top_distinct_sources(query_result, limit)
TopDistinctSources(result, limit) == TopDistinctFrom(result, 1, <<>>, limit)

\* ------------------------------------------------- answering one question
RankInit ==
    /\ ChunkIdle /\ ReadIdle /\ PipeIdle
    /\ query_result \in QueryResults
    /\ rank_limit \in 0..MaxLimit
    /\ retrieved_chunks = <<>> /\ rag_context = "" /\ sources_used = <<>>
    /\ ranked = <<>>
    /\ pc_rank = "query"

\* Line 178: retrieved_chunks = retrieve_relevant_chunks(user_question, k=5)
Retrieve ==
    /\ pc_rank = "query"
    /\ retrieved_chunks' = RetrieveRelevantChunks(query_result)
    /\ pc_rank' = "retrieved"
    /\ UNCHANGED <<query_result, rag_context, sources_used, rank_limit, ranked>>
    /\ UNCHANGED <<chunk_vars, read_vars, pipe_vars>>

\* Line 179: rag_context, sources_used = build_rag_context(retrieved_chunks)
Assemble ==
    /\ pc_rank = "retrieved"
    /\ rag_context' = BuildRagContext(retrieved_chunks).context
    /\ sources_used' = BuildRagContext(retrieved_chunks).unique_sources
    /\ pc_rank' = "assembled"
    /\ UNCHANGED <<query_result, retrieved_chunks, rank_limit, ranked>>
    /\ UNCHANGED <<chunk_vars, read_vars, pipe_vars>>

\* top_distinct_sources applied to the retrieved chunks.
Rank ==
    /\ pc_rank = "assembled"
    /\ ranked' = TopDistinctSources(retrieved_chunks, rank_limit)
    /\ pc_rank' = "ranked"
    /\ UNCHANGED <<query_result, retrieved_chunks, rag_context, sources_used, rank_limit>>
    /\ UNCHANGED <<chunk_vars, read_vars, pipe_vars>>

RankNext == Retrieve \/ Assemble \/ Rank

RankSpec == RankInit /\ [][RankNext]_vars

\* ------------------------------------------------------ ranking: properties
\* The position of the first entry of the result with source src.
FirstIndex(result, src) ==
    CHOOSE i \in DOMAIN result :
        result[i].source = src /\ \A j \in 1..(i - 1) : result[j].source # src

SourcesOf(result) == {result[i].source : i \in DOMAIN result}

\* C8: for a query result in ascending-distance order, top_distinct_sources
\* returns min(limit, number of distinct sources) entries with pairwise
\* different sources, in the order of the sources' first appearance and
\* passing over no source that appears earlier, each with the distance and
\* sample text of its source's first occurrence, which is that source's
\* minimum distance in the input.
C8_TopDistinct ==
    pc_rank = "ranked" =>
        /\ Len(ranked) = Min(rank_limit, Cardinality(SourcesOf(retrieved_chunks)))
        /\ \A a \in DOMAIN ranked :
              /\ ranked[a].source \in SourcesOf(retrieved_chunks)
              /\ LET f == FirstIndex(retrieved_chunks, ranked[a].source)
                 IN  /\ ranked[a].distance = retrieved_chunks[f].distance
                     /\ ranked[a].sample = retrieved_chunks[f].chunk_text
                     /\ \A i \in DOMAIN retrieved_chunks :
                           retrieved_chunks[i].source = ranked[a].source =>
                               ranked[a].distance <= retrieved_chunks[i].distance
                     /\ \A i \in 1..(f - 1) :
                           \E b \in 1..(a - 1) : ranked[b].source = retrieved_chunks[i].source
              /\ \A b \in DOMAIN ranked :
                    a < b =>
                      /\ ranked[a].source # ranked[b].source
                      /\ FirstIndex(retrieved_chunks, ranked[a].source)
                           < FirstIndex(retrieved_chunks, ranked[b].source)

\* C8 witness: a result with a repeated source and more distinct sources than
\* the limit was ranked; the repeated source's later entry is farther away.
C8_Witness ==
    /\ pc_rank = "ranked"
    /\ rank_limit = 2 /\ Len(ranked) = 2
    /\ Cardinality(SourcesOf(retrieved_chunks)) = 3
    /\ retrieved_chunks[1].source = retrieved_chunks[3].source
    /\ retrieved_chunks[1].distance < retrieved_chunks[3].distance

RECURSIVE ExpectedContext(_)
\* One block per chunk, numbered from 1 in input order, a blank line between
\* blocks; written from the last chunk backwards.
ExpectedContext(cs) ==
    IF cs = <<>> THEN ""
    ELSE LET n == Len(cs)
             block == "[Context " \o ToString(n) \o "] Source: " \o cs[n].source
                          \o " (Page " \o ToString(cs[n].page_number) \o ")\n"
                          \o cs[n].chunk_text
         IN  IF n = 1 THEN block
             ELSE ExpectedContext(SubSeq(cs, 1, n - 1)) \o "\n\n" \o block

\* C9: build_rag_context gives one block per input chunk, in input order,
\* headed [Context N] with N from 1, the blocks joined by a blank line, and
\* the distinct source names in first-occurrence order without duplicates.
C9_ContextBlocks ==
    pc_rank \in {"assembled", "ranked"} =>
        /\ rag_context = ExpectedContext(retrieved_chunks)
        /\ {sources_used[k] : k \in DOMAIN sources_used} = SourcesOf(retrieved_chunks)
        /\ Len(sources_used) = Cardinality(SourcesOf(retrieved_chunks))
        /\ \A a, b \in DOMAIN sources_used :
              a < b => FirstIndex(retrieved_chunks, sources_used[a])
                         < FirstIndex(retrieved_chunks, sources_used[b])

\* C9 witness: three chunks, the first and the last from the same source,
\* were assembled into three blocks and two source names.
C9_Witness ==
    /\ pc_rank = "assembled"
    /\ Len(retrieved_chunks) = 3
    /\ retrieved_chunks[1].source = retrieved_chunks[3].source
    /\ retrieved_chunks[1].source # retrieved_chunks[2].source
    /\ Len(sources_used) = 2
    /\ rag_context # ""

====
